---- MODULE Spec2Model ----
(***************************************************************************)
(* A model of the weather ETL pipeline of pablitotechi/api:                *)
(*   weather_pipeline.py          get_lat_lon, fetch_hourly_weather,       *)
(*                                to_staging_df, transform, load_to_mongo, *)
(*                                run_pipeline                             *)
(*   weather_pipeline_prefect.py  the Prefect tasks (with their retries)   *)
(*                                and weather_etl_flow                     *)
(* Python's None is the value NONE; an optional number is a sequence of    *)
(* length at most one (<<>> is NaN / NaT / None, <<n>> is the value n).    *)
(***************************************************************************)
EXTENDS Integers, Sequences, FiniteSets, TLC

NONE == "<None>"

\* The largest number of candidates in a geocoding response.
MaxResults == 2

(***************************************************************************)
(* Strings                                                                 *)
(***************************************************************************)

\* x or "" : None and the empty string are falsy.
OrEmpty(x) == IF x = NONE THEN "" ELSE x

\* A truthy string (if x.get("admin1"), [p for p in pieces if p]).
Truthy(x) == x # NONE /\ x # ""

\* str.upper() on the country codes of the model.
Upper(s) ==
    CASE s \in {"CR", "cr", "Cr"} -> "CR"
      [] s \in {"US", "us"} -> "US"
      [] OTHER -> s

\* str.lower() on the country display names of the model.
Lower(s) ==
    CASE s \in {"Costa Rica", "COSTA RICA", "costa rica"} -> "costa rica"
      [] s \in {"Estados Unidos", "estados unidos"} -> "estados unidos"
      [] OTHER -> s

(***************************************************************************)
(* 1) EXTRACT - geocoding: get_lat_lon                                     *)
(***************************************************************************)

\* The candidates a geocoding response may carry.
Candidate ==
    [ name : {"San Jose"},
      admin1 : {NONE, "San Jose"},
      country : {"Costa Rica", "Estados Unidos", NONE},
      country_code : {"CR", "cr", "US", NONE},
      latitude : {9, 37},
      longitude : {-84} ]

\* Sequences of at most n elements of S.
SeqUpTo(S, n) == UNION { [1..k -> S] : k \in 0..n }

\* The country codes a caller passes: valid ISO 3166-1 alpha-2 codes, in
\* either case.
RequestedCodes == {"CR", "cr", "US"}

Location ==
    [ city_input : STRING, country_code : STRING, location_name : Seq(STRING),
      latitude : Int, longitude : Int ]

\* The value of `loc` where no Location was returned.
NoLocation ==
    [ city_input |-> NONE, country_code |-> NONE, location_name |-> <<>>,
      latitude |-> 0, longitude |-> 0 ]

\* score(x) of get_lat_lon, with cc = country_code.upper().
score(x, cc) ==
      (IF Upper(OrEmpty(x.country_code)) = cc THEN 10 ELSE 0)
    + (IF Lower(OrEmpty(x.country)) \in {"costa rica", "costa rica "} THEN 5 ELSE 0)
    + (IF Truthy(x.admin1) THEN 1 ELSE 0)

\* get_lat_lon without its filter: every result is a candidate.
candidates_unfiltered(results, cc) == results

\* candidates = [x for x in results if (x.get("country_code") or "").upper() == cc]
candidates(results, cc) ==
    SelectSeq(results, LAMBDA x : Upper(OrEmpty(x.country_code)) = cc)

\* One step of a stable descending sort: x goes behind every element whose
\* score is at least its own.
RECURSIVE InsertByScore(_, _, _)
InsertByScore(x, sorted, cc) ==
    IF sorted = <<>> THEN <<x>>
    ELSE IF score(Head(sorted), cc) >= score(x, cc)
         THEN <<Head(sorted)>> \o InsertByScore(x, Tail(sorted), cc)
         ELSE <<x>> \o sorted

\* sorted(xs, key=score, reverse=True): stable, equal scores keep their order.
RECURSIVE SortedByScore(_, _)
SortedByScore(xs, cc) ==
    IF xs = <<>> THEN <<>>
    ELSE InsertByScore(xs[Len(xs)], SortedByScore(SubSeq(xs, 1, Len(xs) - 1), cc), cc)

\* ", ".join([p for p in pieces if p]): the name is kept as its pieces.
JoinPieces(pieces) == SelectSeq(pieces, Truthy)

\* chosen = sorted(candidates, key=score, reverse=True)[0]
ChosenCandidate(results, cc) == SortedByScore(candidates(results, cc), cc)[1]

\* return Location(city_input=city, country_code=chosen.get("country_code"), ...)
LocationOf(chosen, city) ==
    [ city_input |-> city,
      country_code |-> chosen.country_code,
      location_name |-> JoinPieces(<<chosen.name, chosen.admin1, chosen.country>>),
      latitude |-> chosen.latitude,
      longitude |-> chosen.longitude ]

\* A get_lat_lon that takes the first result when none is in the country.
get_lat_lon_firstResult(results, city, country_code) ==
    LET cc == Upper(country_code) IN
    IF results = <<>>
    THEN [ raised |-> "ValueError: No se encontraron resultados", loc |-> NoLocation ]
    ELSE IF candidates(results, cc) = <<>>
    THEN [ raised |-> NONE, loc |-> LocationOf(results[1], city) ]
    ELSE [ raised |-> NONE, loc |-> LocationOf(ChosenCandidate(results, cc), city) ]

\* get_lat_lon(city, country_code) on the parsed response `results`
\* (data.get("results") or []): the Location, or the ValueError raised.
get_lat_lon(results, city, country_code) ==
    LET cc == Upper(country_code) IN
    IF results = <<>>
    THEN [ raised |-> "ValueError: No se encontraron resultados", loc |-> NoLocation ]
    ELSE IF candidates(results, cc) = <<>>
    THEN [ raised |-> "ValueError: Geocoding ambiguo", loc |-> NoLocation ]
    ELSE [ raised |-> NONE, loc |-> LocationOf(ChosenCandidate(results, cc), city) ]

\* The orchestrator's check after resolution (run_pipeline, weather_etl_flow):
\* TRUE when it passes, FALSE when it raises.
CountryCodeMatches(loc, country_code) == Upper(loc.country_code) = Upper(country_code)

(***************************************************************************)
(* 2) EXTRACT - forecast, 3) STAGE: to_staging_df                          *)
(*                                                                         *)
(* A raw JSON value is [k, v]: k = "iso" is the ISO timestamp string of    *)
(* hour v (hours since the first hour of day 0), k = "num" the number v,   *)
(* k = "numstr" a string that spells the number v, k = "str" any other     *)
(* string, k = "null" JSON null.                                           *)
(***************************************************************************)

Iso(h) == [k |-> "iso", v |-> h]
Num(n) == [k |-> "num", v |-> n]
NumStr(n) == [k |-> "numstr", v |-> n]
Garbage == [k |-> "str", v |-> 0]
Null == [k |-> "null", v |-> 0]

HourlyVars == {"time", "temperature_2m", "relative_humidity_2m", "precipitation", "windspeed_10m"}

StagingCols ==
    HourlyVars \cup
    {"location_name", "city_input", "country_code", "latitude", "longitude",
     "timezone_name", "source", "ingested_at_utc"}

DerivedCols == {"is_rain", "date", "hour"}

CuratedCols == StagingCols \cup DerivedCols

\* A DataFrame: its columns, its index labels and its rows (each a function
\* of the columns), the last two of one length.
EmptyFrame(cols) == [columns |-> cols, index |-> <<>>, rows |-> <<>>]

\* hourly.get(var, []) of weather_json.get("hourly") or {}: an array that is
\* missing reads as the empty list.
HourlyArray(weather_json, var) == weather_json.hourly[var]

\* pd.DataFrame({...}) of arrays raises ValueError unless all have one length.
SameLength(weather_json) ==
    \A a, b \in HourlyVars :
        Len(HourlyArray(weather_json, a)) = Len(HourlyArray(weather_json, b))

\* to_staging_df(weather_json, location, timezone_name), `now` being the value
\* datetime.now(timezone.utc) returns: the staging frame, or the error raised.
to_staging_df(weather_json, location, timezone_name, now) ==
    IF ~SameLength(weather_json)
    THEN [ raised |-> "ValueError: All arrays must be of the same length",
           df |-> EmptyFrame(StagingCols) ]
    ELSE LET n == Len(HourlyArray(weather_json, "time")) IN
         [ raised |-> NONE,
           df |-> [ columns |-> StagingCols,
                    index |-> [i \in 1..n |-> i - 1],
                    rows |-> [i \in 1..n |->
                        [ time |-> HourlyArray(weather_json, "time")[i],
                          temperature_2m |-> HourlyArray(weather_json, "temperature_2m")[i],
                          relative_humidity_2m |->
                              HourlyArray(weather_json, "relative_humidity_2m")[i],
                          precipitation |-> HourlyArray(weather_json, "precipitation")[i],
                          windspeed_10m |-> HourlyArray(weather_json, "windspeed_10m")[i],
                          location_name |-> location.location_name,
                          city_input |-> location.city_input,
                          country_code |-> location.country_code,
                          latitude |-> location.latitude,
                          longitude |-> location.longitude,
                          timezone_name |-> timezone_name,
                          source |-> "open-meteo",
                          ingested_at_utc |-> now ] ] ] ]

(***************************************************************************)
(* 4) TRANSFORM: transform                                                 *)
(***************************************************************************)

\* pd.to_datetime(x, errors="coerce"): the hour of a timestamp string, NaT
\* for anything else.
to_datetime(x) == IF x.k = "iso" THEN <<x.v>> ELSE <<>>

\* pd.to_numeric(x, errors="coerce"): a number or a string that spells one
\* is that number, anything else NaN.
to_numeric(x) == IF x.k \in {"num", "numstr"} THEN <<x.v>> ELSE <<>>

\* The five coercions of transform, applied to one row.
CoerceRow(r) ==
    [r EXCEPT !["time"] = to_datetime(@),
              !["temperature_2m"] = to_numeric(@),
              !["relative_humidity_2m"] = to_numeric(@),
              !["precipitation"] = to_numeric(@),
              !["windspeed_10m"] = to_numeric(@)]

\* The positions of the rows dropna(subset=...) keeps, in order.
KeptPositions(rows, subset) ==
    LET keep == {i \in 1..Len(rows) : \A c \in subset : rows[i][c] # <<>>} IN
    [j \in 1..Cardinality(keep) |->
        CHOOSE i \in keep : Cardinality({k \in keep : k <= i}) = j]

\* out.dropna(subset=...): the rows with a value in every column of subset,
\* under their index labels.
dropna(df, subset) ==
    LET kept == KeptPositions(df.rows, subset) IN
    [df EXCEPT !.index = [j \in 1..Len(kept) |-> df.index[kept[j]]],
               !.rows = [j \in 1..Len(kept) |-> df.rows[kept[j]]]]

\* dropna asked to look at the time alone.
QualitySubset_timeOnly == {"time"}

\* The columns dropna is asked to look at: ["time", "temperature_2m"].
QualitySubset == {"time", "temperature_2m"}

\* precipitation.fillna(0)
fillna0(x) == IF x = <<>> THEN 0 ELSE x[1]

\* The three feature columns of a row whose time is not NaT. A date is the
\* number of its day, as the string of a date identifies the day.
DeriveRow(r) ==
    [c \in CuratedCols |->
        IF c = "is_rain" THEN fillna0(r["precipitation"]) > 0
        ELSE IF c = "date" THEN r["time"][1] \div 24
        ELSE IF c = "hour" THEN r["time"][1] % 24
        ELSE r[c]]

\* transform(df): a new frame; df itself is left as it is (out = df.copy()).
transform(df) ==
    LET coerced == [df EXCEPT !.rows = [i \in 1..Len(df.rows) |-> CoerceRow(df.rows[i])]]
        clean == dropna(coerced, QualitySubset)
    IN  [ columns |-> CuratedCols,
          index |-> clean.index,
          rows |-> [i \in 1..Len(clean.rows) |-> DeriveRow(clean.rows[i])] ]

(***************************************************************************)
(* 5) LOAD: the collection, UpdateOne(key, {"$set": d}, upsert=True)       *)
(*                                                                         *)
(* A document is [_id, cols, val]: the fields it has (besides _id) and     *)
(* their values; a field it has not holds the value of Absent.             *)
(***************************************************************************)

KeyCols == {"location_name", "time"}

Absent ==
    [c \in CuratedCols |->
        IF c \in HourlyVars THEN <<>>
        ELSE IF c = "location_name" THEN <<>>
        ELSE IF c \in {"latitude", "longitude", "ingested_at_utc", "date", "hour"} THEN 0
        ELSE IF c = "is_rain" THEN FALSE
        ELSE NONE]

\* A store that keeps a datetime to the microsecond.
ToBson_microseconds(d, cols) ==
    [c \in CuratedCols |-> IF c \notin cols THEN Absent[c] ELSE d[c]]

\* A record of df.to_dict(orient="records") as BSON holds it: a datetime is
\* kept to the millisecond (the clock counts microseconds; `time` is a whole
\* hour, which to_pydatetime and BSON keep as it is).
ToBson(d, cols) ==
    [c \in CuratedCols |->
        IF c \notin cols THEN Absent[c]
        ELSE IF c = "ingested_at_utc" THEN (d[c] \div 1000) * 1000
        ELSE d[c]]

\* key = {"location_name": d["location_name"], "time": d["time"]}
KeyOf(d) == <<d["location_name"], d["time"]>>

DocKey(doc) == <<doc.val["location_name"], doc.val["time"]>>

\* The position of the first document the filter `key` matches, 0 if none.
FindOne(store, key) ==
    LET hits == {i \in 1..Len(store) : KeyCols \subseteq store[i].cols /\ DocKey(store[i]) = key}
    IN  IF hits = {} THEN 0 ELSE CHOOSE i \in hits : \A j \in hits : i <= j

\* The document replaced by d (a ReplaceOne): only the fields of d are left.
SetFields_replace(doc, d, cols) ==
    [ _id |-> doc._id, cols |-> cols, val |-> ToBson(d, cols) ]

\* An update that leaves a document that exists as it is ($setOnInsert).
SetFields_keep(doc, d, cols) == doc

\* {"$set": d} on a document: the fields of d are set, the others stay.
SetFields(doc, d, cols) ==
    LET bson == ToBson(d, cols) IN
    [ _id |-> doc._id,
      cols |-> doc.cols \cup cols,
      val |-> [c \in CuratedCols |-> IF c \in cols THEN bson[c] ELSE doc.val[c]] ]

\* The document an upsert inserts: the filter's fields and the fields of $set.
NewDoc(id, d, cols) ==
    [ _id |-> id, cols |-> cols \cup KeyCols, val |-> ToBson(d, cols \cup KeyCols) ]

\* Every operation sent as an insert, whatever the collection holds.
InsertAlways(store, d, cols) ==
    [ docs |-> Append(store, NewDoc(Len(store) + 1, d, cols)),
      matched |-> 0, modified |-> 0, upserted |-> 1 ]

\* One UpdateOne(key, {"$set": d}, upsert=True) applied in one piece: the
\* collection afterwards and what it adds to the result's counts.
UpdateOne(store, d, cols) ==
    LET i == FindOne(store, KeyOf(ToBson(d, cols))) IN
    IF i = 0
    THEN [ docs |-> Append(store, NewDoc(Len(store) + 1, d, cols)),
           matched |-> 0, modified |-> 0, upserted |-> 1 ]
    ELSE LET after == SetFields(store[i], d, cols) IN
         [ docs |-> [store EXCEPT ![i] = after],
           matched |-> 1,
           modified |-> IF after = store[i] THEN 0 ELSE 1,
           upserted |-> 0 ]

ZeroCounts == [matched |-> 0, modified |-> 0, upserted |-> 0]

AddCounts(a, b) ==
    [ matched |-> a.matched + b.matched,
      modified |-> a.modified + b.modified,
      upserted |-> a.upserted + b.upserted ]

\* col.bulk_write(ops) with no other writer in between and no failure: the
\* operations applied one after the other (the first half of the list, then,
\* on the collection that leaves, the second half).
RECURSIVE bulk_write(_, _, _)
bulk_write(store, rows, cols) ==
    IF rows = <<>> THEN [docs |-> store, counts |-> ZeroCounts]
    ELSE IF Len(rows) = 1
    THEN LET one == UpdateOne(store, rows[1], cols) IN
         [ docs |-> one.docs,
           counts |-> [ matched |-> one.matched, modified |-> one.modified,
                        upserted |-> one.upserted ] ]
    ELSE LET half == Len(rows) \div 2
             first == bulk_write(store, SubSeq(rows, 1, half), cols)
         IN  \* (the test is there for the order of evaluation: first, then second)
             IF Len(first.docs) >= Len(store)
             THEN LET second == bulk_write(first.docs, SubSeq(rows, half + 1, Len(rows)), cols)
                  IN  [ docs |-> second.docs,
                        counts |-> AddCounts(first.counts, second.counts) ]
             ELSE first

(***************************************************************************)
(* 5) LOAD: ensure_indexes, load_to_mongo                                  *)
(***************************************************************************)

\* An ensure_indexes whose index on (location_name, time) is not unique.
ensure_indexes_notUnique(idx) == idx \cup {"idx_date", "idx_city_input"}

\* ensure_indexes(col): create_index of an index that exists changes nothing.
ensure_indexes(idx) == idx \cup {"uq_location_time", "idx_date", "idx_city_input"}

\* df.empty never holding: the early return of load_to_mongo left out.
df_empty_never(df) == FALSE

\* df.empty
df_empty(df) == df.rows = <<>>

\* load_to_mongo(df) run from its first line to its return with no other
\* writer at work and no failure: the collection afterwards, the result, and
\* which dealings with the store the call had.
load_to_mongo(store, idx, df) ==
    IF df_empty(df)
    THEN [ docs |-> store, indexes |-> idx, result |-> ZeroCounts, steps |-> {} ]
    ELSE LET written == bulk_write(store, df.rows, df.columns) IN
         [ docs |-> written.docs,
           indexes |-> ensure_indexes(idx),
           result |-> written.counts,
           steps |-> {"get_mongo_client", "ping", "create_index", "bulk_write"} ]

(***************************************************************************)
(* State                                                                   *)
(***************************************************************************)

VARIABLES
    \* get_lat_lon on its own: the parsed response, the requested code, what
    \* the call gave and how far the caller is.
    geoResults, geoCode, geoOut, geoPc,
    \* transform on its own: the caller's staging frame, that frame as it was
    \* handed over, the frame returned.
    trIn, trOrig, trOut, trPc,
    \* The collection client[DB_NAME][COLLECTION_NAME]: its documents in the
    \* order of their insertion, and the names of its indexes.
    docs, indexes,
    \* Calls of load_to_mongo one after the other: how many there were, and
    \* the last two (the frame, the collection before, the result).
    ldCalls, ldPrev, ldLast,
    \* Runs of the orchestrator one after the other. The run at hand: which
    \* orchestrator it is, its country_code argument, the step it is at, its
    \* locals (loc, weather_json, staging, curated, result) and the exception
    \* the last call of a stage raised.
    runKind, runCode, pc, runLoc, runWeather, runStaging, runCurated, runResult, raised,
    \* What is recorded of it: the calls made of each stage so far, the last
    \* geocoding response, the stages completed in their order, the value
    \* datetime.now gave to_staging_df, the collection when the run began.
    calls, lastResults, trail, ingested, docsAtStart,
    \* The number of runs begun, what is recorded of the run before this one,
    \* and the responses the geocoding and forecast services may give.
    runs, prev, world,
    \* Two runs at the load at once: for each its call of load_to_mongo (where
    \* it is, the frame, the operations of the batch not yet applied, the one
    \* the server is at, the counts and write errors so far, the calls made),
    \* and for each key written the record last written to it and by whom.
    clients, lastw

geoVars == <<geoResults, geoCode, geoOut, geoPc>>
trVars == <<trIn, trOrig, trOut, trPc>>
storeVars == <<docs, indexes>>
callVars == <<ldCalls, ldPrev, ldLast>>
runVars ==
    <<runKind, runCode, pc, runLoc, runWeather, runStaging, runCurated, runResult, raised,
      calls, lastResults, trail, ingested, docsAtStart, runs, prev, world>>
ovVars == <<clients, lastw>>
vars == <<geoVars, trVars, storeVars, callVars, runVars, ovVars>>

exceptGeo == <<trVars, storeVars, callVars, runVars, ovVars>>
exceptTr == <<geoVars, storeVars, callVars, runVars, ovVars>>
exceptLoad == <<geoVars, trVars, runVars, ovVars>>
exceptRun == <<geoVars, trVars, callVars, ovVars>>
exceptOverlap == <<geoVars, trVars, callVars, runVars>>

DEFAULT_CITY == "San Jose"
DEFAULT_COUNTRY_CODE == "CR"
DEFAULT_TIMEZONE == "America/Costa_Rica"

NoGeoOut == [raised |-> NONE, loc |-> NoLocation]

GeoAtRest ==
    /\ geoResults = <<>>
    /\ geoCode = DEFAULT_COUNTRY_CODE
    /\ geoOut = NoGeoOut
    /\ geoPc = "off"

TrAtRest ==
    /\ trIn = EmptyFrame(StagingCols)
    /\ trOrig = EmptyFrame(StagingCols)
    /\ trOut = EmptyFrame(CuratedCols)
    /\ trPc = "off"

\* The collection before its first write: no document, no index.
StoreEmpty ==
    /\ docs = <<>>
    /\ indexes = {}

NoCall ==
    [ no |-> 0, df |-> EmptyFrame(CuratedCols), before |-> <<>>, idxBefore |-> {},
      result |-> ZeroCounts, steps |-> {} ]

CallsAtRest ==
    /\ ldCalls = 0
    /\ ldPrev = NoCall
    /\ ldLast = NoCall

NoWeather == [hourly |-> [v \in HourlyVars |-> <<>>]]

NoCalls == [geocode |-> 0, fetch |-> 0, load |-> 0]

NoRun ==
    [ ok |-> FALSE, loc |-> NoLocation, weather_json |-> NoWeather, result |-> ZeroCounts,
      ingested |-> 0, docsAtStart |-> <<>> ]

\* The locals of a run that has not begun.
RunLocalsFresh ==
    /\ runLoc = NoLocation
    /\ runWeather = NoWeather
    /\ runStaging = EmptyFrame(StagingCols)
    /\ runCurated = EmptyFrame(CuratedCols)
    /\ runResult = ZeroCounts
    /\ raised = NONE
    /\ calls = NoCalls
    /\ lastResults = <<>>
    /\ trail = <<>>
    /\ ingested = 0
    /\ docsAtStart = <<>>

RunsAtRest ==
    /\ runKind = "run_pipeline"
    /\ runCode = DEFAULT_COUNTRY_CODE
    /\ pc = "off"
    /\ RunLocalsFresh
    /\ runs = 0
    /\ prev = NoRun
    /\ world = [geocoding |-> {}, forecast |-> {}, clock |-> {}]

\* The two runs.
Clients == {"first", "second"}

\* A run that has not called load_to_mongo.
NoClient ==
    [ pc |-> "off", df |-> EmptyFrame(CuratedCols), pending |-> {}, inflight |-> 0,
      counts |-> ZeroCounts, errors |-> 0, made |-> 0, raised |-> NONE ]

OverlapAtRest ==
    /\ clients = [p \in Clients |-> NoClient]
    /\ lastw = <<>>

\* The parts of the state a specification does not use stay as they are.
OthersAtRest(used) ==
    /\ IF "geo" \in used THEN TRUE ELSE GeoAtRest
    /\ IF "tr" \in used THEN TRUE ELSE TrAtRest
    /\ IF "store" \in used THEN TRUE ELSE StoreEmpty
    /\ IF "calls" \in used THEN TRUE ELSE CallsAtRest
    /\ IF "runs" \in used THEN TRUE ELSE RunsAtRest
    /\ IF "overlap" \in used THEN TRUE ELSE OverlapAtRest

(***************************************************************************)
(* SpecGeo: one resolution, from any response and any requested code       *)
(***************************************************************************)

InitGeo ==
    /\ geoResults \in SeqUpTo(Candidate, MaxResults)
    /\ geoCode \in RequestedCodes
    /\ geoOut = NoGeoOut
    /\ geoPc = "start"
    /\ OthersAtRest({"geo"})

\* loc = get_lat_lon(city, country_code)
GeoResolve ==
    /\ geoPc = "start"
    /\ geoOut' = get_lat_lon(geoResults, DEFAULT_CITY, geoCode)
    /\ geoPc' = IF geoOut'.raised = NONE THEN "resolved" ELSE "raised"
    /\ UNCHANGED <<geoResults, geoCode, exceptGeo>>

\* if loc.country_code.upper() != country_code.upper(): raise ValueError(...)
GeoValidate ==
    /\ geoPc = "resolved"
    /\ geoPc' = IF CountryCodeMatches(geoOut.loc, geoCode) THEN "validated" ELSE "rejected"
    /\ UNCHANGED <<geoResults, geoCode, geoOut, exceptGeo>>

NextGeo == GeoResolve \/ GeoValidate

SpecGeo == InitGeo /\ [][NextGeo]_vars

(***************************************************************************)
(* SpecTransform: one call of transform, on any staging frame              *)
(***************************************************************************)

\* The largest number of rows of a staging frame handed to transform.
MaxStaged == 2

RawTimes == {Iso(0), Iso(25), Garbage, Null}
RawTemperatures == {Num(20), NumStr(21), Garbage, Null}
RawPrecipitations == {Num(0), Num(2), Null}

SampleLocation ==
    [ city_input |-> DEFAULT_CITY, country_code |-> "CR",
      location_name |-> <<"San Jose", "San Jose", "Costa Rica">>,
      latitude |-> 9, longitude |-> -84 ]

\* The forecast responses of n hours over the raw values above.
ForecastsOfLength(n) ==
    { [hourly |-> [ time |-> t, temperature_2m |-> c, precipitation |-> p,
                    relative_humidity_2m |-> [i \in 1..n |-> Num(80)],
                    windspeed_10m |-> [i \in 1..n |-> Null] ]] :
        t \in [1..n -> RawTimes], c \in [1..n -> RawTemperatures],
        p \in [1..n -> RawPrecipitations] }

InitTransform ==
    /\ \E n \in 0..MaxStaged : \E w \in ForecastsOfLength(n) :
           trIn = to_staging_df(w, SampleLocation, DEFAULT_TIMEZONE, 0).df
    /\ trOrig = trIn
    /\ trOut = EmptyFrame(CuratedCols)
    /\ trPc = "start"
    /\ OthersAtRest({"tr"})

\* The caller's frame once transform has returned: transform works on
\* out = df.copy(), so it is the frame handed over.
FrameAfterTransform(df) == df

\* curated = transform(staging)
Transform ==
    /\ trPc = "start"
    /\ trOut' = transform(trIn)
    /\ trIn' = FrameAfterTransform(trIn)
    /\ trPc' = "done"
    /\ UNCHANGED <<trOrig, exceptTr>>

NextTransform == Transform

SpecTransform == InitTransform /\ [][NextTransform]_vars

(***************************************************************************)
(* SpecLoad: calls of load_to_mongo one after the other on any frames      *)
(***************************************************************************)

\* The largest number of rows of a frame handed to load_to_mongo, and the
\* largest number of calls.
MaxLoadRows == 2
MaxCalls == 2

\* The forecasts the loaded frames are made of: n hours, each hour 0 or hour
\* 1 (an hour may come twice), at temperatures that rise by a degree a row
\* from 20 or from 21.
LoadForecasts(n) ==
    { [hourly |-> [ time |-> [i \in 1..n |-> Iso(h[i])],
                    temperature_2m |-> [i \in 1..n |-> Num(base + i - 1)],
                    precipitation |-> [i \in 1..n |-> Num(0)],
                    relative_humidity_2m |-> [i \in 1..n |-> Num(80)],
                    windspeed_10m |-> [i \in 1..n |-> Null] ]] :
        h \in [1..n -> {0, 1}], base \in {20, 21} }

\* df[cols]: the frame cut down to some of its columns.
WithColumns(df, cols) ==
    [df EXCEPT !.columns = cols,
               !.rows = [i \in 1..Len(df.rows) |->
                            [c \in CuratedCols |->
                                IF c \in cols THEN df.rows[i][c] ELSE Absent[c]]]]

\* The frames handed to load_to_mongo: curated frames, whole or without the
\* feature columns that transform adds.
LoadFrames ==
    { WithColumns(transform(to_staging_df(w, SampleLocation, DEFAULT_TIMEZONE, 0).df), cols) :
        w \in UNION {LoadForecasts(n) : n \in 0..MaxLoadRows},
        cols \in {CuratedCols, StagingCols} }

InitLoad ==
    /\ StoreEmpty
    /\ CallsAtRest
    /\ OthersAtRest({"store", "calls"})

\* result = load_to_mongo(df)
LoadCall ==
    /\ ldCalls < MaxCalls
    /\ \E df \in LoadFrames :
        LET r == load_to_mongo(docs, indexes, df) IN
        /\ docs' = r.docs
        /\ indexes' = r.indexes
        /\ ldLast' = [ no |-> ldCalls + 1, df |-> df, before |-> docs,
                       idxBefore |-> indexes, result |-> r.result, steps |-> r.steps ]
    /\ ldPrev' = ldLast
    /\ ldCalls' = ldCalls + 1
    /\ UNCHANGED exceptLoad

NextLoad == LoadCall

SpecLoad == InitLoad /\ [][NextLoad]_vars

(***************************************************************************)
(* The orchestrators: run_pipeline and weather_etl_flow, run one at a time *)
(***************************************************************************)

\* The largest number of runs one after the other.
MaxRuns == 2

\* The hours of the day-long forecast.
DayHours == 24

\* retries= of the @task decorators of weather_pipeline_prefect.py.
Retries(task) ==
    CASE task = "geocode" -> 2
      [] task = "fetch" -> 2
      [] task = "load" -> 1
      [] OTHER -> 0

\* An orchestrator that goes on to the next stage when a stage raises.
OnFailure_swallow(kind, task, made) == "continue"

\* What follows when a stage raises on its call number `made`: Prefect calls
\* a task again while it has retries left; run_pipeline, and a task without
\* retries left, let the exception through.
OnFailure(kind, task, made) ==
    IF kind = "weather_etl_flow" /\ made <= Retries(task) THEN "retry" ELSE "raise"

\* The values datetime.now(timezone.utc) gives, in microseconds: two in one
\* millisecond, one in another.
ClockReadings == {0, 400, 1000}

GeoHome ==
    [ name |-> "San Jose", admin1 |-> "San Jose", country |-> "Costa Rica",
      country_code |-> "CR", latitude |-> 9, longitude |-> -84 ]

GeoHomePlain ==
    [ name |-> "San Jose", admin1 |-> NONE, country |-> "Costa Rica",
      country_code |-> "cr", latitude |-> 9, longitude |-> -84 ]

GeoAbroad ==
    [ name |-> "San Jose", admin1 |-> "San Jose", country |-> "Estados Unidos",
      country_code |-> "US", latitude |-> 37, longitude |-> -84 ]

\* Geocoding responses: no result, a result abroad only, a result at home,
\* one abroad before one at home.
GeoResponses == { <<>>, <<GeoAbroad>>, <<GeoHome>>, <<GeoAbroad, GeoHomePlain>> }

\* A forecast response of the hours 0..n-1 with the given temperatures.
HourlyForecast(n, temps) ==
    [hourly |-> [ time |-> [i \in 1..n |-> Iso(i - 1)],
                  temperature_2m |-> temps,
                  relative_humidity_2m |-> [i \in 1..n |-> Num(80)],
                  precipitation |-> [i \in 1..n |-> Num(0)],
                  windspeed_10m |-> [i \in 1..n |-> Num(5)] ]]

\* A response whose arrays but `time` are missing.
RaggedForecast ==
    [hourly |-> [v \in HourlyVars |-> IF v = "time" THEN <<Iso(0), Iso(1)>> ELSE <<>>]]

\* Forecast responses: two good hours, two hours of which one has no
\* temperature, a ragged one, one without any array.
ShortForecasts ==
    { HourlyForecast(2, <<Num(20), Num(21)>>), HourlyForecast(2, <<Null, Num(21)>>),
      RaggedForecast, NoWeather }

\* The day-long forecasts: every hour with all its values, at 20 degrees or
\* at 21.
DayForecasts ==
    { HourlyForecast(DayHours, [i \in 1..DayHours |-> Num(t)]) : t \in {20, 21} }

InitRuns(geocoding, forecast, clock) ==
    /\ StoreEmpty
    /\ runKind = "run_pipeline"
    /\ runCode = DEFAULT_COUNTRY_CODE
    /\ pc = "idle"
    /\ RunLocalsFresh
    /\ runs = 0
    /\ prev = NoRun
    /\ world = [geocoding |-> geocoding, forecast |-> forecast, clock |-> clock]
    /\ OthersAtRest({"store", "runs"})

\* Every stage of the run was called once: no call of it raised.
OneCallEach == [geocode |-> 1, fetch |-> 1, load |-> 1]

Finished == pc \in {"idle", "done", "failed"}

\* run_pipeline(city, country_code, timezone_name) or weather_etl_flow(...)
\* is called, the run before it being over.
StartRun ==
    /\ Finished
    /\ runs < MaxRuns
    /\ runs' = runs + 1
    /\ runKind' \in {"run_pipeline", "weather_etl_flow"}
    /\ runCode' \in {"CR", "cr"}
    /\ prev' = IF pc = "done" /\ calls = OneCallEach
               THEN [ ok |-> TRUE, loc |-> runLoc, weather_json |-> runWeather,
                      result |-> runResult, ingested |-> ingested,
                      docsAtStart |-> docsAtStart ]
               ELSE NoRun
    /\ pc' = "geocode"
    /\ runLoc' = NoLocation
    /\ runWeather' = NoWeather
    /\ runStaging' = EmptyFrame(StagingCols)
    /\ runCurated' = EmptyFrame(CuratedCols)
    /\ runResult' = ZeroCounts
    /\ raised' = NONE
    /\ calls' = NoCalls
    /\ lastResults' = <<>>
    /\ trail' = <<>>
    /\ ingested' = 0
    /\ docsAtStart' = docs
    /\ UNCHANGED <<world, storeVars, exceptRun>>

\* The next stage after `stage`.
StageAfter(stage) ==
    CASE stage = "geocode" -> "validate"
      [] stage = "validate" -> "fetch"
      [] stage = "fetch" -> "stage"
      [] stage = "stage" -> "transform"
      [] stage = "transform" -> "load"
      [] stage = "load" -> "done"

\* The stage `task` raised `err` on its call number `made`: it is called
\* again, or the run ends with the exception.
Raise(task, made, err) ==
    LET what == OnFailure(runKind, task, made) IN
    /\ pc' = CASE what = "retry" -> pc
               [] what = "raise" -> "failed"
               [] OTHER -> StageAfter(pc)
    /\ raised' = err
    /\ UNCHANGED trail

\* The stage returned.
Return(stage) ==
    /\ pc' = StageAfter(stage)
    /\ trail' = Append(trail, stage)
    /\ raised' = NONE

\* loc = get_lat_lon(city, country_code): the service answers, and the
\* function returns a Location.
GeocodeReturns ==
    /\ pc = "geocode"
    /\ calls' = [calls EXCEPT !.geocode = @ + 1]
    /\ \E results \in world.geocoding :
        LET out == get_lat_lon(results, DEFAULT_CITY, runCode) IN
        /\ out.raised = NONE
        /\ lastResults' = results
        /\ runLoc' = out.loc
    /\ Return("geocode")
    /\ UNCHANGED <<runKind, runCode, runWeather, runStaging, runCurated, runResult,
                   ingested, docsAtStart, runs, prev, world, storeVars, exceptRun>>

\* get_lat_lon raises one of its ValueErrors on the answer of the service.
GeocodeRaises ==
    /\ pc = "geocode"
    /\ calls' = [calls EXCEPT !.geocode = @ + 1]
    /\ \E results \in world.geocoding :
        LET out == get_lat_lon(results, DEFAULT_CITY, runCode) IN
        /\ out.raised # NONE
        /\ lastResults' = results
        /\ Raise("geocode", calls.geocode + 1, out.raised)
    /\ UNCHANGED <<runKind, runCode, runLoc, runWeather, runStaging, runCurated, runResult,
                   ingested, docsAtStart, runs, prev, world, storeVars, exceptRun>>

\* requests.get or r.raise_for_status() raises in get_lat_lon.
GeocodeHttpError ==
    /\ pc = "geocode"
    /\ calls' = [calls EXCEPT !.geocode = @ + 1]
    /\ Raise("geocode", calls.geocode + 1, "requests: geocoding")
    /\ UNCHANGED <<runKind, runCode, runLoc, runWeather, runStaging, runCurated, runResult,
                   lastResults, ingested, docsAtStart, runs, prev, world, storeVars,
                   exceptRun>>

\* if loc.country_code.upper() != country_code.upper(): raise ValueError(...)
\* (the check is no task: nothing calls it again).
Validate ==
    /\ pc = "validate"
    /\ IF CountryCodeMatches(runLoc, runCode)
       THEN Return("validate")
       ELSE /\ pc' = "failed"
            /\ raised' = "ValueError: Geocoding no coincide con runCode solicitado"
            /\ UNCHANGED trail
    /\ UNCHANGED <<runKind, runCode, runLoc, runWeather, runStaging, runCurated, runResult,
                   calls, lastResults, ingested, docsAtStart, runs, prev, world,
                   storeVars, exceptRun>>

\* weather_json = fetch_hourly_weather(loc.latitude, loc.longitude, timezone_name)
FetchReturns ==
    /\ pc = "fetch"
    /\ calls' = [calls EXCEPT !.fetch = @ + 1]
    /\ runWeather' \in world.forecast
    /\ Return("fetch")
    /\ UNCHANGED <<runKind, runCode, runLoc, runStaging, runCurated, runResult, lastResults,
                   ingested, docsAtStart, runs, prev, world, storeVars, exceptRun>>

\* requests.get or r.raise_for_status() raises in fetch_hourly_weather.
FetchHttpError ==
    /\ pc = "fetch"
    /\ calls' = [calls EXCEPT !.fetch = @ + 1]
    /\ Raise("fetch", calls.fetch + 1, "requests: forecast")
    /\ UNCHANGED <<runKind, runCode, runLoc, runWeather, runStaging, runCurated, runResult,
                   lastResults, ingested, docsAtStart, runs, prev, world, storeVars,
                   exceptRun>>

\* staging = to_staging_df(weather_json, loc, timezone_name)
Stage ==
    /\ pc = "stage"
    /\ \E now \in world.clock :
        LET out == to_staging_df(runWeather, runLoc, DEFAULT_TIMEZONE, now) IN
        /\ ingested' = now
        /\ IF out.raised = NONE
           THEN /\ runStaging' = out.df
                /\ Return("stage")
           ELSE /\ Raise("stage", 1, out.raised)
                /\ UNCHANGED runStaging
    /\ UNCHANGED <<runKind, runCode, runLoc, runWeather, runCurated, runResult, calls,
                   lastResults, docsAtStart, runs, prev, world, storeVars, exceptRun>>

\* curated = transform(staging)
TransformStage ==
    /\ pc = "transform"
    /\ runCurated' = transform(runStaging)
    /\ runStaging' = FrameAfterTransform(runStaging)
    /\ Return("transform")
    /\ UNCHANGED <<runKind, runCode, runLoc, runWeather, runResult, calls, lastResults,
                   ingested, docsAtStart, runs, prev, world, storeVars, exceptRun>>

\* result = load_to_mongo(curated), which returns.
LoadReturns ==
    /\ pc = "load"
    /\ calls' = [calls EXCEPT !.load = @ + 1]
    /\ LET r == load_to_mongo(docs, indexes, runCurated) IN
        /\ docs' = r.docs
        /\ indexes' = r.indexes
        /\ runResult' = r.result
    /\ Return("load")
    /\ UNCHANGED <<runKind, runCode, runLoc, runWeather, runStaging, runCurated,
                   lastResults, ingested, docsAtStart, runs, prev, world, exceptRun>>

\* get_mongo_client() or the ping raises (MONGO_URI unset, no server in
\* reach): load_to_mongo raises before it wrote anything.
LoadConnectError ==
    /\ pc = "load"
    /\ ~df_empty(runCurated)
    /\ calls' = [calls EXCEPT !.load = @ + 1]
    /\ Raise("load", calls.load + 1, "pymongo: no connection")
    /\ UNCHANGED <<runKind, runCode, runLoc, runWeather, runStaging, runCurated, runResult,
                   lastResults, ingested, docsAtStart, runs, prev, world, storeVars,
                   exceptRun>>

\* The operations of `rows` at the positions of `applied`, in their order.
AppliedRows(rows, applied) ==
    LET at == [j \in 1..Cardinality(applied) |->
                  CHOOSE i \in applied : Cardinality({k \in applied : k <= i}) = j]
    IN  [j \in 1..Cardinality(applied) |-> rows[at[j]]]

\* The connection is lost while bulk_write(ops, ordered=False) is at work:
\* the server has applied some of the operations, any of them, none or all,
\* and load_to_mongo raises.
LoadWriteError ==
    /\ pc = "load"
    /\ ~df_empty(runCurated)
    /\ calls' = [calls EXCEPT !.load = @ + 1]
    /\ \E applied \in SUBSET (1..Len(runCurated.rows)) :
        docs' = bulk_write(docs, AppliedRows(runCurated.rows, applied),
                           runCurated.columns).docs
    /\ indexes' = ensure_indexes(indexes)
    /\ Raise("load", calls.load + 1, "pymongo: connection lost")
    /\ UNCHANGED <<runKind, runCode, runLoc, runWeather, runStaging, runCurated, runResult,
                   lastResults, ingested, docsAtStart, runs, prev, world, exceptRun>>

\* SpecPipeline: runs on short forecasts, with every failure of a stage (the
\* clock gives one reading: what a new stamp does to a rerun is SpecRerun's).
InitPipeline == InitRuns(GeoResponses, ShortForecasts, {1000})

NextPipeline ==
    \/ StartRun
    \/ GeocodeReturns
    \/ GeocodeRaises
    \/ GeocodeHttpError
    \/ Validate
    \/ FetchReturns
    \/ FetchHttpError
    \/ Stage
    \/ TransformStage
    \/ LoadReturns
    \/ LoadConnectError
    \/ LoadWriteError

SpecPipeline == InitPipeline /\ [][NextPipeline]_vars

\* SpecRerun: runs on the day-long forecasts in which no call fails.
InitRerun == InitRuns({<<GeoHome>>, <<GeoAbroad, GeoHomePlain>>}, DayForecasts, ClockReadings)

NextRerun ==
    \/ StartRun
    \/ GeocodeReturns
    \/ Validate
    \/ FetchReturns
    \/ Stage
    \/ TransformStage
    \/ LoadReturns

SpecRerun == InitRerun /\ [][NextRerun]_vars

(***************************************************************************)
(* Two runs of weather_etl_flow whose loads overlap                        *)
(***************************************************************************)

\* The hours of the forecasts of the two runs.
OverlapHours == 2

\* The curated frame of a run for DEFAULT_CITY, DEFAULT_COUNTRY_CODE on the
\* forecast w, staged at `now`.
CuratedOf(w, now) ==
    transform(to_staging_df(w, get_lat_lon(<<GeoHome>>, DEFAULT_CITY, DEFAULT_COUNTRY_CODE).loc,
                            DEFAULT_TIMEZONE, now).df)

\* The frame of each of the two runs: the first has the hours at 20 degrees
\* and staged them at one time, the second has them at 21 degrees and
\* staged them a millisecond later.
OverlapFrame(p) ==
    IF p = "first"
    THEN CuratedOf(HourlyForecast(OverlapHours, [i \in 1..OverlapHours |-> Num(20)]), 0)
    ELSE CuratedOf(HourlyForecast(OverlapHours, [i \in 1..OverlapHours |-> Num(21)]), 1000)

InitOverlap ==
    /\ StoreEmpty
    /\ OverlapAtRest
    /\ OthersAtRest({"store", "overlap"})

\* task_load raised on its call number `made`: Prefect calls it again, or
\* the run fails.
AfterRaise(c, err) ==
    LET what == OnFailure("weather_etl_flow", "load", c.made) IN
    [c EXCEPT !.pc = IF what = "retry" THEN "call" ELSE "failed",
              !.raised = err, !.pending = {}, !.inflight = 0]

\* The run p comes to task_load with its curated frame.
OvReach(p) ==
    /\ clients[p].pc = "off"
    /\ clients' = [clients EXCEPT ![p] = [@ EXCEPT !.pc = "call", !.df = OverlapFrame(p)]]
    /\ UNCHANGED <<lastw, storeVars, exceptOverlap>>

\* load_to_mongo(df) is called: the early return, or get_mongo_client, the
\* ping, ensure_indexes, and the batch is sent.
OvCall(p) ==
    LET c == clients[p] IN
    /\ c.pc = "call"
    /\ IF df_empty(c.df)
       THEN /\ clients' = [clients EXCEPT ![p] =
                    [c EXCEPT !.pc = "done", !.made = @ + 1, !.counts = ZeroCounts]]
            /\ UNCHANGED indexes
       ELSE /\ clients' = [clients EXCEPT ![p] =
                    [c EXCEPT !.pc = "write", !.made = @ + 1, !.counts = ZeroCounts,
                              !.errors = 0, !.raised = NONE,
                              !.pending = 1..Len(c.df.rows)]]
            /\ indexes' = ensure_indexes(indexes)
    /\ UNCHANGED <<docs, lastw, exceptOverlap>>

\* get_mongo_client() or the ping raises.
OvConnectError(p) ==
    LET c == clients[p] IN
    /\ c.pc = "call"
    /\ ~df_empty(c.df)
    /\ clients' = [clients EXCEPT ![p] =
            AfterRaise([c EXCEPT !.made = @ + 1], "pymongo: no connection")]
    /\ UNCHANGED <<lastw, storeVars, exceptOverlap>>

\* The record written to `key` by p is the last one written to it.
Written(p, d, cols) ==
    LET key == KeyOf(ToBson(d, cols))
        before == IF key \in DOMAIN lastw THEN lastw[key].writers ELSE {}
    IN  [k \in DOMAIN lastw \cup {key} |->
            IF k = key
            THEN [by |-> p, val |-> ToBson(d, cols), cols |-> cols,
                  writers |-> before \cup {p}]
            ELSE lastw[k]]

\* The operation i of p's batch done with what UpdateOne gave.
Applied(c, i, one) ==
    [c EXCEPT !.pending = @ \ {i}, !.inflight = 0,
              !.counts = AddCounts(@, [matched |-> one.matched, modified |-> one.modified,
                                       upserted |-> one.upserted])]

\* The server takes an operation of p's batch (ordered=False: any of them)
\* and looks for the document of its key: it updates the one it finds, in
\* one piece, or goes on to insert.
OvFind(p) ==
    LET c == clients[p] IN
    /\ c.pc = "write"
    /\ c.inflight = 0
    /\ \E i \in c.pending :
        LET d == c.df.rows[i]
            cols == c.df.columns
        IN  IF FindOne(docs, KeyOf(ToBson(d, cols))) # 0
            THEN LET one == UpdateOne(docs, d, cols) IN
                 /\ docs' = one.docs
                 /\ clients' = [clients EXCEPT ![p] = Applied(c, i, one)]
                 /\ lastw' = Written(p, d, cols)
            ELSE /\ clients' = [clients EXCEPT ![p].inflight = i]
                 /\ UNCHANGED <<docs, lastw>>
    /\ UNCHANGED <<indexes, exceptOverlap>>

\* The unique index uq_location_time is there and a document of the key too.
DuplicateKey(store, idx, d, cols) ==
    /\ "uq_location_time" \in idx
    /\ FindOne(store, KeyOf(ToBson(d, cols))) # 0

\* The server inserts the document of the operation that found none: the
\* unique index lets it in.
OvInsert(p) ==
    LET c == clients[p]
        i == c.inflight
    IN  /\ c.pc = "write"
        /\ i # 0
        /\ ~DuplicateKey(docs, indexes, c.df.rows[i], c.df.columns)
        /\ LET one == [ docs |-> Append(docs, NewDoc(Len(docs) + 1, c.df.rows[i], c.df.columns)),
                        matched |-> 0, modified |-> 0, upserted |-> 1 ]
           IN  /\ docs' = one.docs
               /\ clients' = [clients EXCEPT ![p] = Applied(c, i, one)]
               /\ lastw' = Written(p, c.df.rows[i], c.df.columns)
        /\ UNCHANGED <<indexes, exceptOverlap>>

\* The insert meets the document the other run inserted meanwhile: the
\* server does the operation again, as an update.
OvDuplicateKeyRetry(p) ==
    LET c == clients[p]
        i == c.inflight
    IN  /\ c.pc = "write"
        /\ i # 0
        /\ DuplicateKey(docs, indexes, c.df.rows[i], c.df.columns)
        /\ LET one == UpdateOne(docs, c.df.rows[i], c.df.columns) IN
               /\ docs' = one.docs
               /\ clients' = [clients EXCEPT ![p] = Applied(c, i, one)]
               /\ lastw' = Written(p, c.df.rows[i], c.df.columns)
        /\ UNCHANGED <<indexes, exceptOverlap>>

\* The insert meets the document the other run inserted meanwhile: the
\* operation ends in a duplicate key error, and the batch goes on.
OvDuplicateKeyError(p) ==
    LET c == clients[p]
        i == c.inflight
    IN  /\ c.pc = "write"
        /\ i # 0
        /\ DuplicateKey(docs, indexes, c.df.rows[i], c.df.columns)
        /\ clients' = [clients EXCEPT ![p] =
                [c EXCEPT !.pending = @ \ {i}, !.inflight = 0, !.errors = @ + 1]]
        /\ UNCHANGED <<lastw, storeVars, exceptOverlap>>

\* bulk_write is through the batch: it returns, or raises BulkWriteError for
\* the write errors.
OvReturn(p) ==
    LET c == clients[p] IN
    /\ c.pc = "write"
    /\ c.pending = {}
    /\ clients' = [clients EXCEPT ![p] =
            IF c.errors = 0
            THEN [c EXCEPT !.pc = "done"]
            ELSE AfterRaise(c, "pymongo: BulkWriteError")]
    /\ UNCHANGED <<lastw, storeVars, exceptOverlap>>

\* The connection is lost while the batch is at work: what is not applied
\* yet is not applied, and bulk_write raises.
OvConnectionLost(p) ==
    LET c == clients[p] IN
    /\ c.pc = "write"
    /\ c.pending # {}
    /\ clients' = [clients EXCEPT ![p] = AfterRaise(c, "pymongo: connection lost")]
    /\ UNCHANGED <<lastw, storeVars, exceptOverlap>>

NextOverlap ==
    \E p \in Clients :
        \/ OvReach(p)
        \/ OvCall(p)
        \/ OvConnectError(p)
        \/ OvFind(p)
        \/ OvInsert(p)
        \/ OvDuplicateKeyRetry(p)
        \/ OvDuplicateKeyError(p)
        \/ OvReturn(p)
        \/ OvConnectionLost(p)

SpecOverlap == InitOverlap /\ [][NextOverlap]_vars

(***************************************************************************)
(* Claims about get_lat_lon (SpecGeo)                                      *)
(***************************************************************************)

\* The candidate a Location was made of.
MadeOf(loc, x) ==
    /\ loc.country_code = x.country_code
    /\ loc.latitude = x.latitude
    /\ loc.longitude = x.longitude
    /\ loc.location_name = JoinPieces(<<x.name, x.admin1, x.country>>)

\* x is a candidate of the requested country.
InRequestedCountry(x, code) ==
    x.country_code # NONE /\ Upper(x.country_code) = Upper(code)

\* C6: a Location that get_lat_lon returns has a country code equal, case
\* aside, to the requested one, it is made of a result of that country, and
\* the orchestrator's check after the resolution never rejects it.
C6_ResolvedCountryMatches ==
    /\ geoPc \in {"resolved", "validated", "rejected"} =>
          /\ geoOut.raised = NONE
          /\ geoOut.loc.country_code # NONE
          /\ Upper(geoOut.loc.country_code) = Upper(geoCode)
          /\ \E i \in DOMAIN geoResults :
                 /\ InRequestedCountry(geoResults[i], geoCode)
                 /\ MadeOf(geoOut.loc, geoResults[i])
    /\ geoPc # "rejected"

\* C6's case: a lower-case request, a first result abroad that carries the
\* country name and an admin region, a second one in the country: the second
\* is returned and passes the check.
C6_Witness ==
    /\ geoPc = "validated"
    /\ geoCode = "cr"
    /\ Len(geoResults) = 2
    /\ geoResults[1].country_code = "US"
    /\ geoResults[1].country = "Costa Rica"
    /\ geoResults[1].admin1 # NONE
    /\ geoResults[2].country_code = "CR"
    /\ geoResults[2].admin1 = NONE
    /\ geoResults[2].latitude # geoResults[1].latitude
    /\ geoOut.loc.country_code = "CR"
    /\ geoOut.loc.latitude = geoResults[2].latitude

(***************************************************************************)
(* Claims about transform (SpecTransform)                                  *)
(***************************************************************************)

\* A staged row whose time is a timestamp and whose temperature is a number
\* (or spells one): the rows that survive the coercion.
Coercible(r) == r["time"].k = "iso" /\ r["temperature_2m"].k \in {"num", "numstr"}

\* The position in the staging frame of the row labelled l.
PositionOf(df, l) == CHOOSE i \in 1..Len(df.index) : df.index[i] = l

\* C10: transform returns the staged rows whose time and temperature are both
\* non-null after coercion, and only those, in their input order: no curated
\* row has a null time or temperature, the curated count is the staged count
\* minus the dropped rows, each curated row carries its staged row's values,
\* and the frame handed over is as it was.
C10_TransformKeepsValidRows ==
    trPc = "done" =>
        LET valid == {i \in 1..Len(trIn.rows) : Coercible(trIn.rows[i])}
            dropped == (1..Len(trIn.rows)) \ valid
            n == Len(trOut.rows)
        IN  /\ Len(trOut.index) = n
            /\ n = Len(trIn.rows) - Cardinality(dropped)
            /\ {trOut.index[j] : j \in 1..n} = {trIn.index[i] : i \in valid}
            /\ \A j, k \in 1..n : j < k => trOut.index[j] < trOut.index[k]
            /\ \A j \in 1..n :
                   LET out == trOut.rows[j]
                       in == trIn.rows[PositionOf(trIn, trOut.index[j])]
                   IN  /\ out["time"] = <<in["time"].v>>
                       /\ out["temperature_2m"] = <<in["temperature_2m"].v>>
                       /\ \A c \in StagingCols \ HourlyVars : out[c] = in[c]
            /\ trIn = trOrig

\* C10's case: the first row has no usable temperature, the second is valid:
\* one curated row, labelled 1.
C10_Witness ==
    /\ trPc = "done"
    /\ Len(trIn.rows) = 2
    /\ trIn.rows[1]["time"] = Iso(0)
    /\ trIn.rows[1]["temperature_2m"] = Garbage
    /\ trIn.rows[2]["time"] = Iso(25)
    /\ trIn.rows[2]["temperature_2m"] = NumStr(21)
    /\ trOut.index = <<1>>
    /\ trOut.rows[1]["temperature_2m"] = <<21>>

(***************************************************************************)
(* Claims about load_to_mongo (SpecLoad)                                   *)
(***************************************************************************)

\* The (location_name, time) keys of the records of a frame.
FrameKeys(df) == {KeyOf(ToBson(df.rows[i], df.columns)) : i \in 1..Len(df.rows)}

\* The keys of the documents of a collection.
StoreKeys(store) == {DocKey(store[i]) : i \in 1..Len(store)}

\* The documents of a collection under the key k.
DocsOf(store, k) == {i \in 1..Len(store) : DocKey(store[i]) = k}

\* The rows of a frame under the key k.
RowsOf(df, k) == {i \in 1..Len(df.rows) : KeyOf(ToBson(df.rows[i], df.columns)) = k}

\* No two records of the frame have one key and different contents.
NoConflictingRows(df) ==
    \A i, j \in 1..Len(df.rows) :
        KeyOf(ToBson(df.rows[i], df.columns)) = KeyOf(ToBson(df.rows[j], df.columns))
            => df.rows[i] = df.rows[j]

\* The last two calls loaded one non-empty frame, and the collection held
\* none of its keys before the first of them.
LoadedTwice ==
    /\ ldPrev.no > 0
    /\ ldLast.df = ldPrev.df
    /\ ldLast.df.rows # <<>>
    /\ FrameKeys(ldLast.df) \cap StoreKeys(ldPrev.before) = {}

\* C2 as claimed: for every non-empty record set with N distinct keys, none in
\* the store, the first load returns upserted = N and a second load of the
\* same records returns upserted = 0 and modified = 0 and leaves the store as
\* it was.
C2_Original ==
    LoadedTwice =>
        /\ ldPrev.result.upserted = Cardinality(FrameKeys(ldLast.df))
        /\ ldLast.result.upserted = 0
        /\ ldLast.result.modified = 0
        /\ docs = ldLast.before

\* C2 as amended: the first load returns upserted = N and the second
\* upserted = 0; the second returns modified = 0 and leaves the store as it
\* was when no two records of the set share a key with different contents.
C2_IdempotentLoad ==
    LoadedTwice =>
        /\ ldPrev.result.upserted = Cardinality(FrameKeys(ldLast.df))
        /\ ldLast.result.upserted = 0
        /\ ldLast.result.matched = Len(ldLast.df.rows)
        /\ NoConflictingRows(ldLast.df) =>
              /\ ldLast.result.modified = 0
              /\ docs = ldLast.before

\* C2's case: two records of two keys loaded twice; 2 upserted, then 2 matched
\* and none modified.
C2_Witness ==
    /\ LoadedTwice
    /\ Len(ldLast.df.rows) = 2
    /\ Cardinality(FrameKeys(ldLast.df)) = 2
    /\ ldPrev.result = [matched |-> 0, modified |-> 0, upserted |-> 2]
    /\ ldLast.result = [matched |-> 2, modified |-> 0, upserted |-> 0]
    /\ Len(docs) = 2

\* C4 as claimed, for each key that one record of the loaded frame has: the
\* stored document afterwards carries exactly that record's fields and
\* values, whether the key was in the store or not.
C4_Original ==
    ldLast.no > 0 =>
        \A k \in FrameKeys(ldLast.df) :
            Cardinality(RowsOf(ldLast.df, k)) = 1 =>
                LET d == ldLast.df.rows[CHOOSE i \in RowsOf(ldLast.df, k) : TRUE] IN
                \A i \in DocsOf(docs, k) :
                    /\ docs[i].cols = ldLast.df.columns
                    /\ docs[i].val = ToBson(d, ldLast.df.columns)

\* C4 as amended: the stored document afterwards carries every field of the
\* record with the record's value, and keeps, with its value, every field
\* that only the old document had (a merge); a key that was absent gets a
\* new document of exactly the record's fields.
C4_SetMergesFields ==
    ldLast.no > 0 =>
        \A k \in FrameKeys(ldLast.df) :
            Cardinality(RowsOf(ldLast.df, k)) = 1 =>
                LET d == ldLast.df.rows[CHOOSE i \in RowsOf(ldLast.df, k) : TRUE]
                    new == ToBson(d, ldLast.df.columns)
                IN  /\ DocsOf(docs, k) # {}
                    /\ \A i \in DocsOf(docs, k) :
                        /\ \A c \in ldLast.df.columns : docs[i].val[c] = new[c]
                        /\ IF i \in DocsOf(ldLast.before, k)
                           THEN /\ docs[i]._id = ldLast.before[i]._id
                                /\ docs[i].cols = ldLast.before[i].cols \cup ldLast.df.columns
                                /\ \A c \in ldLast.before[i].cols \ ldLast.df.columns :
                                       docs[i].val[c] = ldLast.before[i].val[c]
                           ELSE /\ docs[i].cols = ldLast.df.columns
                                /\ docs[i].val = new

\* C4's case: a document with all the curated fields at 20 degrees is written
\* again from a frame without the feature columns, at 21 degrees: the
\* temperature is the new one and the feature fields are still there.
C4_Witness ==
    /\ ldLast.no = 2
    /\ ldLast.df.columns = StagingCols
    /\ Len(ldLast.df.rows) = 1
    /\ Len(ldLast.before) = 1
    /\ Len(docs) = 1
    /\ DocKey(ldLast.before[1]) = KeyOf(ToBson(ldLast.df.rows[1], StagingCols))
    /\ ldLast.before[1].cols = CuratedCols
    /\ ldLast.before[1].val["temperature_2m"] = <<20>>
    /\ docs[1].val["temperature_2m"] = <<21>>
    /\ docs[1].val["hour"] = ldLast.before[1].val["hour"]
    /\ docs[1].cols = CuratedCols
    /\ ldLast.result = [matched |-> 1, modified |-> 1, upserted |-> 0]

\* C8: load_to_mongo of an empty frame returns all-zero counts, opens no
\* connection, creates no index and writes nothing: the collection and its
\* indexes are as before.
C8_EmptyFrameIsNoOp ==
    (ldLast.no > 0 /\ ldLast.df.rows = <<>>) =>
        /\ ldLast.result = [matched |-> 0, modified |-> 0, upserted |-> 0]
        /\ ldLast.steps = {}
        /\ docs = ldLast.before
        /\ indexes = ldLast.idxBefore

\* C8's case: an empty frame loaded after a load that wrote documents.
C8_Witness ==
    /\ ldLast.no = 2
    /\ ldLast.df.rows = <<>>
    /\ ldPrev.df.rows # <<>>
    /\ ldPrev.steps # {}
    /\ Len(docs) = 2
    /\ ldLast.steps = {}
    /\ ldLast.result = ZeroCounts

(***************************************************************************)
(* Claims on the runs of the orchestrators                                 *)
(***************************************************************************)

UpstreamStages == <<"geocode", "validate", "fetch", "stage", "transform">>

UpstreamDone == Len(trail) >= Len(UpstreamStages)

\* C5 (no partial loads): in every run of run_pipeline and of
\* weather_etl_flow, load_to_mongo is called only after geocoding, the check
\* of the country code, the fetch, staging and transform have returned, in
\* that order; and a run that ended because one of them raised has the
\* exception as its outcome, has made no call of load_to_mongo, and has left
\* the collection as it found it.
C5_NoPartialLoads ==
    /\ calls.load > 0 => SubSeq(trail, 1, Len(UpstreamStages)) = UpstreamStages
    /\ pc = "load" => trail = UpstreamStages
    /\ (pc = "failed" /\ ~UpstreamDone) =>
            /\ raised # NONE
            /\ calls.load = 0
            /\ docs = docsAtStart

C5_Witness ==
    /\ pc = "failed"
    /\ trail = <<"geocode", "validate", "fetch">>
    /\ runKind = "weather_etl_flow"
    /\ calls.fetch > 1
    /\ docs # <<>>

\* Every result of the response is of another country than the one asked for.
OnlyOtherCountries(results, cc) ==
    /\ results # <<>>
    /\ \A i \in 1..Len(results) : Upper(OrEmpty(results[i].country_code)) # Upper(cc)

\* C7 (no candidate in the country): when the geocoding service answered a
\* call of get_lat_lon with at least one result but none of the country
\* asked for, the call raised the ValueError "Geocoding ambiguo", which is
\* not the one raised on an answer without results, no Location came of
\* it, and the run makes no call of the forecast service for as long as this
\* is its latest geocoding answer.
C7_NoCandidateInCountry ==
    (/\ calls.geocode > 0
     /\ raised # "requests: geocoding"
     /\ OnlyOtherCountries(lastResults, runCode))
    => /\ raised = "ValueError: Geocoding ambiguo"
       /\ raised # get_lat_lon(<<>>, DEFAULT_CITY, runCode).raised
       /\ runLoc = NoLocation
       /\ pc \in {"geocode", "failed"}
       /\ calls.fetch = 0

C7_Witness ==
    /\ pc = "failed"
    /\ runKind = "run_pipeline"
    /\ OnlyOtherCountries(lastResults, runCode)
    /\ raised = "ValueError: Geocoding ambiguo"
    /\ calls = [geocode |-> 1, fetch |-> 0, load |-> 0]

\* The response is one of DayHours hourly timestamps with all their values.
DayLong(w) == w \in DayForecasts

SameDataAgain ==
    /\ pc = "done"
    /\ prev.ok
    /\ DayLong(runWeather)
    /\ runWeather = prev.weather_json
    /\ runLoc = prev.loc

Millisecond(t) == t \div 1000

\* C3 as the specification has it: the run on the empty collection returns
\* {matched: 0, modified: 0, upserted: 24}, and the run right after it on the
\* same response returns {matched: 24, modified: 0, upserted: 0}.
C3_Original ==
    /\ (pc = "done" /\ DayLong(runWeather) /\ docsAtStart = <<>>) =>
            runResult = [matched |-> 0, modified |-> 0, upserted |-> DayHours]
    /\ (SameDataAgain /\ prev.docsAtStart = <<>>) =>
            runResult = [matched |-> DayHours, modified |-> 0, upserted |-> 0]

\* C3 (end-to-end rerun), amended: a run on the empty collection with a
\* response of 24 hourly timestamps and no missing value returns
\* {matched: 0, modified: 0, upserted: 24}; a run right after a run of the
\* same response and the same location returns matched 24 and upserted 0,
\* and modified 24, every document taking the new ingested_at_utc, unless
\* the two runs were stamped in the same millisecond, when modified is 0.
C3_RerunRestampsDocuments ==
    /\ (pc = "done" /\ DayLong(runWeather) /\ docsAtStart = <<>>) =>
            runResult = [matched |-> 0, modified |-> 0, upserted |-> DayHours]
    /\ SameDataAgain =>
            runResult =
                [ matched |-> DayHours,
                  modified |-> IF Millisecond(ingested) = Millisecond(prev.ingested)
                               THEN 0 ELSE DayHours,
                  upserted |-> 0 ]

C3_Witness ==
    /\ SameDataAgain
    /\ prev.docsAtStart = <<>>
    /\ prev.result = [matched |-> 0, modified |-> 0, upserted |-> DayHours]
    /\ Millisecond(ingested) # Millisecond(prev.ingested)
    /\ runResult = [matched |-> DayHours, modified |-> DayHours, upserted |-> 0]

(***************************************************************************)
(* Claims on the collection under overlapping and repeated loads           *)
(***************************************************************************)

\* The documents of the collection with the key k.
DocsWithKey(k) == {i \in 1..Len(docs) : DocKey(docs[i]) = k}

Ended(p) == clients[p].pc \in {"done", "failed"}

\* C1 (one document per key, none deleted): whatever calls of load_to_mongo
\* were made, a call made again after a batch applied in part and the
\* interleaved writes of two runs among them, the collection holds at most
\* one document of a (location_name, time) pair, and a document of every
\* pair that was ever written.
C1_OneDocumentPerKey ==
    /\ \A i, j \in 1..Len(docs) : DocKey(docs[i]) = DocKey(docs[j]) => i = j
    /\ \A k \in DOMAIN lastw : DocsWithKey(k) # {}

C1_Witness ==
    /\ \A p \in Clients : clients[p].pc = "done"
    /\ \E p \in Clients : clients[p].made = 2 /\ clients[p].counts.matched = OverlapHours
    /\ \E p \in Clients : clients[p].counts.upserted \in 1..(OverlapHours - 1)
    /\ Len(docs) = OverlapHours
    /\ \A k \in DOMAIN lastw : lastw[k].writers = Clients

\* C9 (last write wins): when two runs for the same city and country write
\* their records in any interleaving, the document of every key both have
\* written is, in full, the record of the run whose write to the key was
\* applied last, and the key has one document only.
C9_LastWriteWins ==
    \A k \in DOMAIN lastw :
        lastw[k].writers = Clients =>
            /\ Cardinality(DocsWithKey(k)) = 1
            /\ \A i \in DocsWithKey(k) :
                /\ docs[i].val = lastw[k].val
                /\ docs[i].cols = lastw[k].cols

C9_Witness ==
    /\ \A p \in Clients : clients[p].pc = "done" /\ clients[p].made = 1
    /\ clients["first"].df # clients["second"].df
    /\ \A k \in DOMAIN lastw : lastw[k].writers = Clients
    /\ \E k \in DOMAIN lastw : lastw[k].by = "first"
    /\ \E k \in DOMAIN lastw : lastw[k].by = "second"
    /\ \A k \in DOMAIN lastw : \A i \in DocsWithKey(k) :
            docs[i].val = clients[lastw[k].by].df.rows[CHOOSE n \in 1..OverlapHours :
                KeyOf(clients[lastw[k].by].df.rows[n]) = k]

(***************************************************************************)
(* Claims on what is called again                                          *)
(***************************************************************************)

\* The ValueErrors of get_lat_lon and of the check of the country code.
NeverRetried ==
    { "ValueError: No se encontraron resultados",
      "ValueError: Geocoding ambiguo",
      "ValueError: Geocoding no coincide con country_code solicitado" }

\* C11 (request errors are not retried): in every run, when geocoding gave
\* no result, gave no result of the country asked for, or the country code
\* of the Location disagrees with the request, geocoding has been called
\* exactly once and the run has failed with that error; and a stage is
\* called a bounded number of times.
C11_RequestErrorsNotRetried ==
    /\ raised \in NeverRetried => (pc = "failed" /\ calls.geocode = 1)
    /\ calls.fetch <= 1 + Retries("fetch")
    /\ calls.load <= 1 + Retries("load")

\* weather_etl_flow has called task_geocode three times on answers without a
\* result of the country, and fails with the error of the third.
C11_Witness ==
    /\ runKind = "weather_etl_flow"
    /\ pc = "failed"
    /\ raised = "ValueError: Geocoding ambiguo"
    /\ OnlyOtherCountries(lastResults, runCode)
    /\ calls = [geocode |-> 3, fetch |-> 0, load |-> 0]

(***************************************************************************)
(* Claims on the ranking of get_lat_lon (SpecGeo)                          *)
(***************************************************************************)

\* The display name, in lower case, of the country a code stands for.
ExpectedCountryName(code) ==
    CASE Upper(code) = "CR" -> "costa rica"
      [] Upper(code) = "US" -> "estados unidos"

\* The score as the specification has it: 10 for the country code, 5 for the
\* display name of the requested country, 1 for an admin region.
ClaimedScore(x, code) ==
      10
    + (IF Lower(OrEmpty(x.country)) = ExpectedCountryName(code) THEN 5 ELSE 0)
    + (IF Truthy(x.admin1) THEN 1 ELSE 0)

\* The positions of the results of the requested country.
Matching(results, code) ==
    {i \in DOMAIN results : InRequestedCountry(results[i], code)}

\* The first of the matching results with the highest claimed score.
ClaimedChoice(results, code) ==
    CHOOSE i \in Matching(results, code) :
        \A j \in Matching(results, code) :
            \/ ClaimedScore(results[i], code) > ClaimedScore(results[j], code)
            \/ /\ ClaimedScore(results[i], code) = ClaimedScore(results[j], code)
               /\ i <= j

\* C12 (ranking): among the results of the requested country get_lat_lon
\* takes the one of the highest score, the score being 10 for the country
\* code, 5 more if the display name of the country is that of the requested
\* country, 1 more if there is an admin region, and among equal scores the
\* first in the order of the response; a single matching result gives its
\* coordinates as they are.
C12_HighestScoreWins ==
    geoPc \in {"resolved", "validated"} =>
        geoOut.loc = LocationOf(geoResults[ClaimedChoice(geoResults, geoCode)], DEFAULT_CITY)

\* A request for US: a first result of US without display name and with an
\* admin region, a second one named Estados Unidos without admin region;
\* get_lat_lon returns the first.
C12_Witness ==
    /\ geoPc = "validated"
    /\ geoCode = "US"
    /\ Len(geoResults) = 2
    /\ geoResults[1].country_code = "US"
    /\ geoResults[1].country = NONE
    /\ geoResults[1].admin1 # NONE
    /\ geoResults[2].country_code = "US"
    /\ geoResults[2].country = "Estados Unidos"
    /\ geoResults[2].admin1 = NONE
    /\ geoResults[1].latitude # geoResults[2].latitude
    /\ ClaimedChoice(geoResults, geoCode) = 2
    /\ geoOut.loc.latitude = geoResults[1].latitude

====
